---- MODULE Spec2Model ----
(***************************************************************************)
(* Model of utils/monday_api.py: get_monday_data and update_monday_item.   *)
(*                                                                         *)
(* Python values are tagged records, JSON text is a sequence of tokens,    *)
(* json.dumps and json.loads are a serializer and a recursive-descent      *)
(* parser over those tokens.  A call is run step by step (pc); the POSTs   *)
(* it issued and the log records it emitted are kept in order.             *)
(***************************************************************************)
EXTENDS Integers, Sequences, FiniteSets, TLC

\* Largest number of entries of a column_values mapping passed by a caller.
MaxCols == 2

-----------------------------------------------------------------------------
(* Python values *)

PyNone == [t |-> "none"]
PyBool(b) == [t |-> "bool", b |-> b]
PyStr(s) == [t |-> "str", s |-> s]
PyInt(n) == [t |-> "int", n |-> n]
\* a dict is its items in insertion order: a sequence of <<key, value>>, keys unique
PyDict(items) == [t |-> "dict", items |-> items]
PyList(elems) == [t |-> "list", elems |-> elems]
\* a value json cannot encode (a set, a datetime, ...)
PyObject == [t |-> "object"]

\* bool(v)
Truthy(v) ==
    CASE v.t = "none" -> FALSE
      [] v.t = "bool" -> v.b
      [] v.t = "str" -> v.s # ""
      [] v.t = "int" -> v.n # 0
      [] v.t = "dict" -> v.items # <<>>
      [] v.t = "list" -> v.elems # <<>>
      [] OTHER -> TRUE

Keys(items) == {items[i][1] : i \in 1..Len(items)}

\* key in d
DictHas(items, k) == k \in Keys(items)

\* d[k], for a key of d
DictAt(items, k) == items[CHOOSE i \in 1..Len(items) : items[i][1] = k][2]

\* d[k] = v: an existing key keeps its position, a new key is appended
DictSet(items, k, v) ==
    IF DictHas(items, k)
    THEN [i \in 1..Len(items) |-> IF items[i][1] = k THEN <<k, v>> ELSE items[i]]
    ELSE Append(items, <<k, v>>)

-----------------------------------------------------------------------------
(* JSON text *)

Tok(k, s) == [k |-> k, s |-> s]
LBrace == Tok("punct", "{")
RBrace == Tok("punct", "}")
LBracket == Tok("punct", "[")
RBracket == Tok("punct", "]")
Colon == Tok("punct", ":")
Comma == Tok("punct", ",")

\* decimal text of the integers that occur
IntText == (0 :> "0") @@ (7 :> "7") @@ (456 :> "456")
TextInt(s) == CHOOSE n \in DOMAIN IntText : IntText[n] = s
IsIntText(s) == \E n \in DOMAIN IntText : IntText[n] = s

EncodeError == [ok |-> FALSE, text |-> <<>>]

RECURSIVE dumps(_)
RECURSIVE dumps_items(_, _)
RECURSIVE dumps_elems(_, _)

\* json.dumps(v): ok = FALSE stands for the TypeError of a value that is not serializable
dumps(v) ==
    CASE v.t = "none" -> [ok |-> TRUE, text |-> <<Tok("literal", "null")>>]
      [] v.t = "bool" -> [ok |-> TRUE,
                          text |-> <<Tok("literal", IF v.b THEN "true" ELSE "false")>>]
      [] v.t = "str" -> [ok |-> TRUE, text |-> <<Tok("string", v.s)>>]
      [] v.t = "int" -> [ok |-> TRUE, text |-> <<Tok("number", IntText[v.n])>>]
      [] v.t = "dict" ->
            LET body == dumps_items(v.items, 1)
            IN  IF body.ok
                THEN [ok |-> TRUE, text |-> <<LBrace>> \o body.text \o <<RBrace>>]
                ELSE EncodeError
      [] v.t = "list" ->
            LET body == dumps_elems(v.elems, 1)
            IN  IF body.ok
                THEN [ok |-> TRUE, text |-> <<LBracket>> \o body.text \o <<RBracket>>]
                ELSE EncodeError
      [] OTHER -> EncodeError

dumps_items(items, i) ==
    IF i > Len(items) THEN [ok |-> TRUE, text |-> <<>>]
    ELSE LET val == dumps(items[i][2])
             rest == dumps_items(items, i + 1)
         IN  IF val.ok /\ rest.ok
             THEN [ok |-> TRUE,
                   text |-> <<Tok("string", items[i][1]), Colon>> \o val.text
                            \o (IF i < Len(items) THEN <<Comma>> ELSE <<>>) \o rest.text]
             ELSE EncodeError

dumps_elems(elems, i) ==
    IF i > Len(elems) THEN [ok |-> TRUE, text |-> <<>>]
    ELSE LET val == dumps(elems[i])
             rest == dumps_elems(elems, i + 1)
         IN  IF val.ok /\ rest.ok
             THEN [ok |-> TRUE,
                   text |-> val.text
                            \o (IF i < Len(elems) THEN <<Comma>> ELSE <<>>) \o rest.text]
             ELSE EncodeError

ParseError == [ok |-> FALSE, val |-> PyNone, next |-> 0]
Parsed(v, n) == [ok |-> TRUE, val |-> v, next |-> n]

RECURSIVE parse_value(_, _)
RECURSIVE parse_members(_, _, _)
RECURSIVE parse_elements(_, _, _)

\* the JSON value that starts at token i of s
parse_value(s, i) ==
    IF i > Len(s) THEN ParseError
    ELSE LET tk == s[i] IN
         CASE tk = Tok("literal", "null") -> Parsed(PyNone, i + 1)
           [] tk = Tok("literal", "true") -> Parsed(PyBool(TRUE), i + 1)
           [] tk = Tok("literal", "false") -> Parsed(PyBool(FALSE), i + 1)
           [] tk.k = "string" -> Parsed(PyStr(tk.s), i + 1)
           [] tk.k = "number" /\ IsIntText(tk.s) -> Parsed(PyInt(TextInt(tk.s)), i + 1)
           [] tk = LBrace ->
                IF i + 1 <= Len(s) /\ s[i + 1] = RBrace
                THEN Parsed(PyDict(<<>>), i + 2)
                ELSE parse_members(s, i + 1, <<>>)
           [] tk = LBracket ->
                IF i + 1 <= Len(s) /\ s[i + 1] = RBracket
                THEN Parsed(PyList(<<>>), i + 2)
                ELSE parse_elements(s, i + 1, <<>>)
           [] OTHER -> ParseError

\* the members of an object from token i on; a repeated key keeps its last value
parse_members(s, i, acc) ==
    IF i + 1 > Len(s) THEN ParseError
    ELSE IF s[i].k # "string" \/ s[i + 1] # Colon THEN ParseError
    ELSE LET r == parse_value(s, i + 2) IN
         IF ~r.ok \/ r.next > Len(s) THEN ParseError
         ELSE LET acc2 == DictSet(acc, s[i].s, r.val) IN
              IF s[r.next] = RBrace THEN Parsed(PyDict(acc2), r.next + 1)
              ELSE IF s[r.next] = Comma THEN parse_members(s, r.next + 1, acc2)
              ELSE ParseError

parse_elements(s, i, acc) ==
    LET r == parse_value(s, i) IN
    IF ~r.ok \/ r.next > Len(s) THEN ParseError
    ELSE LET acc2 == Append(acc, r.val) IN
         IF s[r.next] = RBracket THEN Parsed(PyList(acc2), r.next + 1)
         ELSE IF s[r.next] = Comma THEN parse_elements(s, r.next + 1, acc2)
         ELSE ParseError

\* json.loads(s): ok = FALSE stands for json.JSONDecodeError
loads(s) ==
    LET r == parse_value(s, 1)
    IN  IF r.ok /\ r.next = Len(s) + 1
        THEN [ok |-> TRUE, val |-> r.val]
        ELSE [ok |-> FALSE, val |-> PyNone]

-----------------------------------------------------------------------------
(* Exceptions, HTTP responses, log records *)

\* the classes an exception of class cls is an instance of
Bases(cls) ==
    CASE cls = "ConnectionError" -> {"ConnectionError", "RequestException", "Exception"}
      [] cls = "HTTPError" -> {"HTTPError", "RequestException", "Exception"}
      [] cls = "json.JSONDecodeError" -> {"json.JSONDecodeError", "ValueError", "Exception"}
      [] cls = "requests.JSONDecodeError" ->
            {"requests.JSONDecodeError", "RequestException",
             "json.JSONDecodeError", "ValueError", "Exception"}
      [] cls = "TypeError" -> {"TypeError", "Exception"}
      [] cls = "AttributeError" -> {"AttributeError", "Exception"}
      [] OTHER -> {}

IsInstance(e, c) == c \in Bases(e.cls)

\* e.response of an exception that carries no response
NoResponse == [status |-> 0, text |-> <<>>]
\* cls raised by the step at pc label `at`, carrying `resp` as e.response
Exc(cls, at, resp) == [cls |-> cls, at |-> at, response |-> resp]
NoExc == Exc("none", "none", NoResponse)

\* the exception classes response.json() raises on a body that is not JSON: the
\* json module's own, or the requests subclass that is also a RequestException
JsonErrorClasses == {"json.JSONDecodeError", "requests.JSONDecodeError"}

\* response.raise_for_status() raises HTTPError
RaisesOn4xxOnly(status) == 400 <= status /\ status < 500
RaisesForStatus(status) == 400 <= status /\ status < 600

\* bool(response) is response.ok: raise_for_status() would not raise
ResponseTruthy(r) == r # NoResponse /\ ~RaisesForStatus(r.status)

LogRec(line, cls, status, hasText, text) ==
    [line |-> line, cls |-> cls, status |-> status, hasText |-> hasText, text |-> text]

-----------------------------------------------------------------------------
(* Inputs *)

KeyPool == <<"status", "notes", "date", "owner", "tags">>
ColumnIds == {KeyPool[i] : i \in 1..MaxCols}

Envelope(text) == PyDict(<< <<"text", text>> >>)

\* the values a caller puts in a column_values mapping
ColumnValues ==
    { PyStr("hello"),
      Envelope(PyStr("")),
      Envelope(PyStr("Done")),
      Envelope(PyNone),
      Envelope(PyInt(7)),
      Envelope(PyDict(<< <<"label", PyStr("x")>> >>)),
      PyDict(<< <<"label", PyStr("Done")>> >>),
      PyObject }

RECURSIVE MappingsFrom(_)
\* the item sequences over the column ids KeyPool[i..MaxCols], in pool order
MappingsFrom(i) ==
    IF i > MaxCols THEN {<<>>}
    ELSE LET rest == MappingsFrom(i + 1)
         IN  rest \cup {<< <<KeyPool[i], v>> >> \o r : v \in ColumnValues, r \in rest}

\* the column_values arguments: the mappings, and None (not a mapping at all)
ColumnValueArgs == {PyDict(m) : m \in MappingsFrom(1)} \cup {PyNone}

Queries == {"query { me { id } }"}
VariableArgs ==
    { PyNone,
      PyDict(<<>>),
      PyDict(<< <<"id", PyInt(7)>> >>),
      PyDict(<< <<"id", PyInt(0)>>, <<"name", PyStr("")>> >>) }

api_key == "key"
api_url == "https://api.monday.com/v2"

UpdateReply(v) == PyDict(<< <<"data", PyDict(<< <<"change_multiple_column_values", v>> >>)>> >>)
IdReply(id) == UpdateReply(PyDict(<< <<"id", id>> >>))

\* the bodies the server answers with: JSON documents, and text that is not JSON
Bodies ==
    { dumps(v).text : v \in
        { IdReply(PyStr("123")),
          IdReply(PyStr("")),
          IdReply(PyNone),
          UpdateReply(PyDict(<<>>)),
          UpdateReply(PyNone),
          PyDict(<< <<"data", PyDict(<<>>)>> >>),
          PyDict(<< <<"data", PyNone>> >>),
          PyDict(<< <<"errors", PyList(<<PyStr("bad")>>)>> >>),
          PyList(<<>>) } }
    \cup { <<>>, <<Tok("garbage", "<html>")>>, <<LBrace, Tok("string", "data"), Colon>> }

Statuses == {101, 200, 300, 404, 500}
Responses == [status : Statuses, text : Bodies]

-----------------------------------------------------------------------------
(* State *)

VARIABLES
    pc,             \* the statement the running call is at; "idle" between calls
    fn,             \* the function being called
    args,           \* the arguments as they were when the call was made
    heap,           \* the dict objects: "arg" is the caller's, "copy" the decoded one
    column_values,  \* the object the local name column_values is bound to
    variables,      \* get_monday_data: the parameter; update_monday_item: the local dict
    payload,        \* the request body
    response,       \* what requests.post returned
    result,         \* response.json()
    exc,            \* the exception in flight, or the last one raised in this call
    net,            \* the POSTs issued by this call, in order
    log,            \* the logger.error records of this call, in order
    outcome         \* how the call ended

vars == <<pc, fn, args, heap, column_values, variables, payload, response, result,
          exc, net, log, outcome>>

NoArgs == [query |-> "", variables |-> PyNone, item_id |-> PyNone, board_id |-> PyNone,
           column_values |-> PyNone]
NoHeap == [arg |-> PyNone, copy |-> PyNone]
NoPayload == [query |-> "", has_variables |-> FALSE, variables |-> PyNone]
NoOutcome == [kind |-> "none", value |-> PyNone, exc |-> NoExc]
Returned(v) == [kind |-> "return", value |-> v, exc |-> NoExc]
Raised(e) == [kind |-> "raise", value |-> PyNone, exc |-> e]

headers == [Authorization |-> api_key, ContentType |-> "application/json"]
\* requests.post(url=api_url, json=body, headers=headers)
Post(body) == [url |-> api_url, headers |-> headers, json |-> body]

Init ==
    /\ pc = "idle"
    /\ fn = "none"
    /\ args = NoArgs
    /\ heap = NoHeap
    /\ column_values = "arg"
    /\ variables = PyNone
    /\ payload = NoPayload
    /\ response = NoResponse
    /\ result = PyNone
    /\ exc = NoExc
    /\ net = <<>>
    /\ log = <<>>
    /\ outcome = NoOutcome

-----------------------------------------------------------------------------
(* get_monday_data *)

build_payload_if_not_none(query, vars_arg) ==
    [query |-> query, has_variables |-> vars_arg # PyNone, variables |-> vars_arg]
\* payload = {'query': query}; if variables: payload['variables'] = variables
\* (has_variables says whether the key is in the dict)
build_payload(query, vars_arg) ==
    IF Truthy(vars_arg)
    THEN [query |-> query, has_variables |-> TRUE, variables |-> vars_arg]
    ELSE [query |-> query, has_variables |-> FALSE, variables |-> PyNone]

get_monday_data_call ==
    /\ pc = "idle"
    /\ \E q \in Queries, v \in VariableArgs :
        /\ args' = [NoArgs EXCEPT !.query = q, !.variables = v]
        /\ variables' = v
        /\ payload' = build_payload(q, v)
    /\ fn' = "get_monday_data"
    /\ pc' = "g_post"
    /\ UNCHANGED <<heap, column_values, response, result, exc, net, log, outcome>>

\* response = requests.post(...): the request goes out, then the connection fails or
\* a response comes back
get_monday_data_post ==
    /\ pc = "g_post"
    /\ net' = Append(net, Post(payload))
    /\ \/ /\ exc' = Exc("ConnectionError", "g_post", NoResponse)
          /\ pc' = "g_except"
          /\ UNCHANGED response
       \/ /\ response' \in Responses
          /\ pc' = "g_json"
          /\ UNCHANGED exc
    /\ UNCHANGED <<fn, args, heap, column_values, variables, payload, result, log, outcome>>

\* response.raise_for_status(); return response.json()
get_monday_data_json ==
    /\ pc = "g_json"
    /\ IF RaisesForStatus(response.status)
       THEN /\ exc' = Exc("HTTPError", "g_json", response)
            /\ pc' = "g_except"
            /\ UNCHANGED <<result, outcome>>
       ELSE LET body == loads(response.text) IN
            IF body.ok
            THEN /\ result' = body.val
                 /\ outcome' = Returned(body.val)
                 /\ pc' = "done"
                 /\ UNCHANGED exc
            ELSE /\ \E cls \in JsonErrorClasses : exc' = Exc(cls, "g_json", NoResponse)
                 /\ pc' = "g_except"
                 /\ UNCHANGED <<result, outcome>>
    /\ UNCHANGED <<fn, args, heap, column_values, variables, payload, response, net, log>>

\* except requests.exceptions.RequestException as e: log str(e), which names the
\* status of an HTTPError; log e.response.text if e.response is truthy; raise
on_request_exception(e) ==
    [log |-> <<LogRec(31, e.cls, e.response.status, FALSE, <<>>)>>
             \o (IF ResponseTruthy(e.response)
                 THEN <<LogRec(33, e.cls, 0, TRUE, e.response.text)>>
                 ELSE <<>>),
     outcome |-> Raised(e)]

on_decode_error_swallowed(e) ==
    [log |-> <<LogRec(36, e.cls, 0, FALSE, <<>>)>>, outcome |-> Returned(PyNone)]
\* except json.JSONDecodeError as e: log; raise
on_decode_error(e) ==
    [log |-> <<LogRec(36, e.cls, 0, FALSE, <<>>)>>, outcome |-> Raised(e)]

\* the except clauses in order; an exception none of them names propagates unlogged
get_monday_data_handler(e) ==
    IF IsInstance(e, "RequestException") THEN on_request_exception(e)
    ELSE IF IsInstance(e, "json.JSONDecodeError") THEN on_decode_error(e)
    ELSE [log |-> <<>>, outcome |-> Raised(e)]

get_monday_data_except ==
    /\ pc = "g_except"
    /\ LET h == get_monday_data_handler(exc) IN
        /\ log' = log \o h.log
        /\ outcome' = h.outcome
    /\ pc' = "done"
    /\ UNCHANGED <<fn, args, heap, column_values, variables, payload, response, result,
                   exc, net>>

-----------------------------------------------------------------------------
(* update_monday_item *)

mutation == "mutation ($item_id: ID!, $board_id: ID!, $column_values: JSON!) { change_multiple_column_values (item_id: $item_id, board_id: $board_id, column_values: $column_values) { id } }"

\* str(item_id)
str(v) == IF v.t = "str" THEN v.s ELSE IF v.t = "int" THEN IntText[v.n] ELSE "None"

BoardIds == {PyInt(456)}
ItemIds == {PyStr("123"), PyInt(7)}

update_monday_item_call ==
    /\ pc = "idle"
    /\ \E item \in ItemIds, board \in BoardIds, cv \in ColumnValueArgs :
        /\ args' = [NoArgs EXCEPT !.item_id = item, !.board_id = board,
                                  !.column_values = cv]
        /\ heap' = [NoHeap EXCEPT !.arg = cv]
    /\ column_values' = "arg"
    /\ fn' = "update_monday_item"
    /\ pc' = "u_dumps"
    /\ UNCHANGED <<variables, payload, response, result, exc, net, log, outcome>>

after_dumps_ignoring_error(d) == IF d.ok THEN "u_loads" ELSE "u_post"
\* where control goes after json.dumps(column_values): on, or to the outer except
after_dumps(d) == IF d.ok THEN "u_loads" ELSE "u_except"

\* variables = {"item_id": str(item_id), "board_id": board_id,
\*              "column_values": json.dumps(column_values)}
update_monday_item_dumps ==
    /\ pc = "u_dumps"
    /\ LET d == dumps(heap[column_values]) IN
        /\ variables' = [item_id |-> str(args.item_id), board_id |-> args.board_id,
                         column_values |-> d.text]
        /\ exc' = IF d.ok THEN exc ELSE Exc("TypeError", "u_dumps", NoResponse)
        /\ pc' = after_dumps(d)
    /\ UNCHANGED <<fn, args, heap, column_values, payload, response, result, net, log,
                   outcome>>

caller_ref == "arg"
\* the object the name column_values is bound to by
\* column_values = json.loads(variables['column_values']): a new one
decoded_ref == "copy"

\* column_values = json.loads(variables['column_values']);
\* except json.JSONDecodeError: log, return False
update_monday_item_loads ==
    /\ pc = "u_loads"
    /\ LET l == loads(variables.column_values) IN
        IF l.ok
        THEN /\ heap' = [heap EXCEPT ![decoded_ref] = l.val]
             /\ column_values' = decoded_ref
             /\ pc' = "u_normalize"
             /\ UNCHANGED <<exc, log, outcome>>
        ELSE /\ exc' = Exc("json.JSONDecodeError", "u_loads", NoResponse)
             /\ log' = Append(log, LogRec(91, "json.JSONDecodeError", 0, FALSE, <<>>))
             /\ outcome' = Returned(PyBool(FALSE))
             /\ pc' = "done"
             /\ UNCHANGED <<heap, column_values>>
    /\ UNCHANGED <<fn, args, variables, payload, response, result, net>>

\* isinstance(value, dict) and 'text' in value
has_text(value) == value.t = "dict" /\ DictHas(value.items, "text")

format_text_drop_falsy(value) ==
    IF Truthy(DictAt(value.items, "text")) THEN DictAt(value.items, "text") ELSE PyStr("")
format_text_keep_empty(value) ==
    IF DictAt(value.items, "text") = PyStr("") THEN value ELSE DictAt(value.items, "text")
\* what column_values[key] is set to for a value with 'text':
\* "" if value['text'] == "" else value['text']
format_text(value) ==
    IF DictAt(value.items, "text") = PyStr("") THEN PyStr("") ELSE DictAt(value.items, "text")

RECURSIVE normalize(_, _)
\* for key, value in column_values.items(): ..., from the i-th item on
normalize(items, i) ==
    IF i > Len(items) THEN items
    ELSE IF has_text(items[i][2])
         THEN normalize(DictSet(items, items[i][1], format_text(items[i][2])), i + 1)
         ELSE normalize(items, i + 1)

\* the loop over column_values.items(), then
\* variables['column_values'] = json.dumps(column_values)
update_monday_item_normalize ==
    /\ pc = "u_normalize"
    /\ LET cv == heap[column_values] IN
        IF cv.t # "dict"
        THEN /\ exc' = Exc("AttributeError", "u_normalize", NoResponse)
             /\ pc' = "u_except"
             /\ UNCHANGED <<heap, variables>>
        ELSE LET new == PyDict(normalize(cv.items, 1))
                 d == dumps(new)
             IN  /\ heap' = [heap EXCEPT ![column_values] = new]
                 /\ IF d.ok
                    THEN /\ variables' = [variables EXCEPT !.column_values = d.text]
                         /\ pc' = "u_post"
                         /\ UNCHANGED exc
                    ELSE /\ exc' = Exc("TypeError", "u_normalize", NoResponse)
                         /\ pc' = "u_except"
                         /\ UNCHANGED variables
    /\ UNCHANGED <<fn, args, column_values, payload, response, result, net, log, outcome>>

\* payload = {'query': mutation, 'variables': variables};
\* response = requests.post(url=api_url, json=payload, headers=headers)
update_monday_item_post ==
    /\ pc = "u_post"
    /\ payload' = [query |-> mutation, has_variables |-> TRUE, variables |-> variables]
    /\ net' = Append(net, Post(payload'))
    /\ \/ /\ exc' = Exc("ConnectionError", "u_post", NoResponse)
          /\ pc' = "u_except"
          /\ UNCHANGED response
       \/ /\ response' \in Responses
          /\ pc' = "u_json"
          /\ UNCHANGED exc
    /\ UNCHANGED <<fn, args, heap, column_values, variables, result, log, outcome>>

\* response.raise_for_status(); result = response.json()
update_monday_item_json ==
    /\ pc = "u_json"
    /\ IF RaisesForStatus(response.status)
       THEN /\ exc' = Exc("HTTPError", "u_json", response)
            /\ pc' = "u_except"
            /\ UNCHANGED result
       ELSE LET body == loads(response.text) IN
            IF body.ok
            THEN /\ result' = body.val
                 /\ pc' = "u_check"
                 /\ UNCHANGED exc
            ELSE /\ \E cls \in JsonErrorClasses : exc' = Exc(cls, "u_json", NoResponse)
                 /\ pc' = "u_except"
                 /\ UNCHANGED result
    /\ UNCHANGED <<fn, args, heap, column_values, variables, payload, response, net, log,
                   outcome>>

AttrError == [ok |-> FALSE, val |-> PyNone]
\* v.get(k, default): ok = FALSE stands for the AttributeError of a v that has no get
get(v, k, default) ==
    IF v.t # "dict" THEN AttrError
    ELSE [ok |-> TRUE, val |-> IF DictHas(v.items, k) THEN DictAt(v.items, k) ELSE default]

updated_id_data_only(res) == get(res, "data", PyDict(<<>>))
\* result.get('data', {}).get('change_multiple_column_values', {}).get('id')
updated_id(res) ==
    LET data == get(res, "data", PyDict(<<>>)) IN
    IF ~data.ok THEN AttrError
    ELSE LET change == get(data.val, "change_multiple_column_values", PyDict(<<>>)) IN
         IF ~change.ok THEN AttrError
         ELSE get(change.val, "id", PyNone)

\* if <id>: return True; else: log, return False
update_monday_item_check ==
    /\ pc = "u_check"
    /\ LET id == updated_id(result) IN
        IF ~id.ok
        THEN /\ exc' = Exc("AttributeError", "u_check", NoResponse)
             /\ pc' = "u_except"
             /\ UNCHANGED <<log, outcome>>
        ELSE IF Truthy(id.val)
        THEN /\ outcome' = Returned(PyBool(TRUE))
             /\ pc' = "done"
             /\ UNCHANGED <<exc, log>>
        ELSE /\ log' = Append(log, LogRec(109, "none", 0, TRUE, response.text))
             /\ outcome' = Returned(PyBool(FALSE))
             /\ pc' = "done"
             /\ UNCHANGED exc
    /\ UNCHANGED <<fn, args, heap, column_values, variables, payload, response, result, net>>

catches_request_exception(e) == IsInstance(e, "RequestException")
\* except Exception as e
catches(e) == IsInstance(e, "Exception")

\* except Exception as e: log, return False; anything else propagates
update_monday_item_except ==
    /\ pc = "u_except"
    /\ IF catches(exc)
       THEN /\ log' = Append(log, LogRec(113, exc.cls, exc.response.status, FALSE, <<>>))
            /\ outcome' = Returned(PyBool(FALSE))
       ELSE /\ outcome' = Raised(exc)
            /\ UNCHANGED log
    /\ pc' = "done"
    /\ UNCHANGED <<fn, args, heap, column_values, variables, payload, response, result,
                   exc, net>>

-----------------------------------------------------------------------------

\* the call is over; the next one starts from scratch (nothing is kept between calls)
call_return ==
    /\ pc = "done"
    /\ pc' = "idle"
    /\ fn' = "none"
    /\ args' = NoArgs
    /\ heap' = NoHeap
    /\ column_values' = "arg"
    /\ variables' = PyNone
    /\ payload' = NoPayload
    /\ response' = NoResponse
    /\ result' = PyNone
    /\ exc' = NoExc
    /\ net' = <<>>
    /\ log' = <<>>
    /\ outcome' = NoOutcome

Next ==
    \/ get_monday_data_call
    \/ get_monday_data_post
    \/ get_monday_data_json
    \/ get_monday_data_except
    \/ update_monday_item_call
    \/ update_monday_item_dumps
    \/ update_monday_item_loads
    \/ update_monday_item_normalize
    \/ update_monday_item_post
    \/ update_monday_item_json
    \/ update_monday_item_check
    \/ update_monday_item_except
    \/ call_return

Spec == Init /\ [][Next]_vars

-----------------------------------------------------------------------------
(* Properties *)

InUpdate == fn = "update_monday_item"
InGet == fn = "get_monday_data"
UpdateDone == InUpdate /\ pc = "done"
GetDone == InGet /\ pc = "done"

\* the column_values string of the first request of the call
SentColumnValues == net[1].json.variables.column_values

\* C1: update_monday_item never lets an exception escape: whatever the input and the
\* transport outcome, the call ends by returning a boolean, and the boolean is False
\* whenever a step raised.
C1_NeverRaises ==
    UpdateDone =>
        /\ outcome.kind = "return"
        /\ outcome.value.t = "bool"
        /\ (exc # NoExc => outcome.value = PyBool(FALSE))

\* a response of unexpected structure made .get raise, and the call returned False
C1_Witness ==
    /\ UpdateDone
    /\ exc.cls = "AttributeError" /\ exc.at = "u_check"
    /\ outcome = Returned(PyBool(FALSE))

IsErrorStatus(status) == status \in 400..599

\* the JSON text decodes to an object with a non-empty identifier at
\* data.change_multiple_column_values.id
HasNonEmptyId(text) ==
    LET j == loads(text) IN
    /\ j.ok
    /\ j.val.t = "dict" /\ DictHas(j.val.items, "data")
    /\ LET data == DictAt(j.val.items, "data") IN
        /\ data.t = "dict" /\ DictHas(data.items, "change_multiple_column_values")
        /\ LET change == DictAt(data.items, "change_multiple_column_values") IN
            /\ change.t = "dict" /\ DictHas(change.items, "id")
            /\ DictAt(change.items, "id") \notin {PyNone, PyStr("")}

\* C2: update_monday_item returns True if and only if the transport (the POST with its
\* raise on an HTTP error status) returned a response whose decoded JSON has a
\* non-empty identifier at data.change_multiple_column_values.id; every other response
\* yields False, returned and not raised.
C2_TrueIffId ==
    UpdateDone =>
        /\ outcome.kind = "return"
        /\ outcome.value = PyBool(TRUE) <=>
              /\ response # NoResponse
              /\ ~IsErrorStatus(response.status)
              /\ HasNonEmptyId(response.text)
        /\ outcome.value # PyBool(TRUE) => outcome.value = PyBool(FALSE)

C2_Witness ==
    /\ UpdateDone
    /\ outcome = Returned(PyBool(TRUE))
    /\ HasNonEmptyId(response.text)

\* what the claim says is sent for an input value
Expected(value) ==
    IF value.t = "dict" /\ DictHas(value.items, "text")
    THEN DictAt(value.items, "text")
    ELSE value

ExampleInput ==
    PyDict(<< <<"status", Envelope(PyStr("Done"))>>, <<"notes", Envelope(PyStr(""))>> >>)
ExampleSent == PyDict(<< <<"status", PyStr("Done")>>, <<"notes", PyStr("")>> >>)

\* C3: the column_values variable of the request is a JSON string whose decoded form
\* has exactly the keys of the input mapping and holds, for each key, the text value
\* when the input value is a mapping containing "text" and the input value unchanged
\* otherwise; so it is the input itself when no entry bears "text", and
\* {"status": {"text": "Done"}, "notes": {"text": ""}} is sent as
\* {"status": "Done", "notes": ""}.
C3_SentColumnValues ==
    (InUpdate /\ net # <<>>) =>
        LET input == args.column_values
            sent == loads(SentColumnValues)
        IN  /\ input.t = "dict"
            /\ sent.ok
            /\ sent.val.t = "dict"
            /\ Len(sent.val.items) = Len(input.items)
            /\ Keys(sent.val.items) = Keys(input.items)
            /\ \A k \in Keys(input.items) :
                  DictAt(sent.val.items, k) = Expected(DictAt(input.items, k))
            /\ (\A k \in Keys(input.items) : ~has_text(DictAt(input.items, k)))
                  => sent.val = input
            /\ input = ExampleInput => sent.val = ExampleSent

C3_Witness ==
    /\ InUpdate /\ net # <<>>
    /\ args.column_values = ExampleInput
    /\ loads(SentColumnValues).val = ExampleSent

\* a transport error: the request failed or the status was refused
IsTransportError(e) == e.cls \in {"ConnectionError", "HTTPError"}

\* C4 as written: get_monday_data fails with a transport error, returning no value, for
\* every response whose status is not 2xx; it returns a value only when the status is 2xx.
C4_Original ==
    (GetDone /\ response # NoResponse) =>
        /\ response.status \notin 200..299 =>
              outcome.kind = "raise" /\ IsTransportError(outcome.exc)
        /\ outcome.kind = "return" => response.status \in 200..299

\* C4, amended: get_monday_data fails with a transport error, returning no value, for
\* every response whose status is 4xx or 5xx; it returns a value only when the status
\* is not 4xx or 5xx (a 1xx or 3xx response with a JSON body is returned like a 2xx).
C4_ErrorStatusRaises ==
    (GetDone /\ response # NoResponse) =>
        /\ IsErrorStatus(response.status) =>
              /\ outcome.kind = "raise"
              /\ outcome.exc.cls = "HTTPError"
              /\ outcome.exc.response = response
        /\ outcome.kind = "return" => ~IsErrorStatus(response.status)
        /\ (~IsErrorStatus(response.status) /\ loads(response.text).ok) =>
              outcome = Returned(loads(response.text).val)

C4_Witness ==
    /\ GetDone
    /\ response.status = 300
    /\ outcome.kind = "return"

\* C5: when the response has a success status and a body that is not valid JSON,
\* get_monday_data fails with a decode error that reaches the caller (no value is
\* returned), and the caller can tell it from a transport error by its class.
C5_DecodeErrorPropagates ==
    (GetDone /\ response.status \in 200..299 /\ ~loads(response.text).ok) =>
        /\ outcome.kind = "raise"
        /\ outcome.value = PyNone
        /\ IsInstance(outcome.exc, "json.JSONDecodeError")
        /\ ~IsTransportError(outcome.exc)
        /\ \A cls \in {"ConnectionError", "HTTPError"} :
              "json.JSONDecodeError" \notin Bases(cls)

C5_Witness ==
    /\ GetDone
    /\ response.status = 200
    /\ response.text = <<Tok("garbage", "<html>")>>
    /\ outcome.kind = "raise"
    /\ outcome.exc.cls = "json.JSONDecodeError"

\* C6: the request body of get_monday_data always has 'query', and has 'variables' if
\* and only if the variables argument is neither None nor empty; a non-empty mapping
\* is sent unchanged.
C6_Payload ==
    (InGet /\ net # <<>>) =>
        LET body == net[1].json IN
        /\ body.query = args.query
        /\ body.has_variables <=> args.variables \notin {PyNone, PyDict(<<>>)}
        /\ body.has_variables => body.variables = args.variables

C6_Witness ==
    /\ InGet /\ net # <<>>
    /\ args.variables = PyDict(<<>>)
    /\ ~net[1].json.has_variables

BeforeTransport == {"u_dumps", "u_loads", "u_normalize"}

\* C7: a POST is issued only after the normalized column_values string has been
\* produced; if update_monday_item fails while encoding, re-decoding or normalizing
\* the column values, it returns False and no request has been sent in that call.
C7_NoPostBeforeEncoding ==
    InUpdate =>
        /\ net # <<>> =>
              /\ exc.at \notin BeforeTransport
              /\ heap[column_values].t = "dict"
              /\ SentColumnValues = dumps(heap[column_values]).text
        /\ (pc = "done" /\ exc.at \in BeforeTransport) =>
              outcome = Returned(PyBool(FALSE)) /\ net = <<>>

C7_Witness ==
    /\ UpdateDone
    /\ exc.cls = "TypeError" /\ exc.at = "u_dumps"
    /\ outcome = Returned(PyBool(FALSE))
    /\ net = <<>>

\* C8: whenever get_monday_data fails because the server answered with an error status,
\* an error record carrying the status and one carrying the response body of that
\* response have been logged by the time the error reaches the caller.
C8_StatusAndBodyLogged ==
    (GetDone /\ outcome.kind = "raise" /\ outcome.exc.cls = "HTTPError") =>
        /\ \E i \in 1..Len(log) : log[i].status = response.status
        /\ \E i \in 1..Len(log) : log[i].hasText /\ log[i].text = response.text

\* the normalization pass is over and nothing else has run
Normalized == InUpdate /\ pc = "u_post"

\* C9 as written: after the normalization pass every entry whose input value was a
\* mapping containing "text" holds a bare string, whatever the text value was.
C9_Original ==
    Normalized =>
        \A k \in Keys(args.column_values.items) :
            has_text(DictAt(args.column_values.items, k))
                => DictAt(heap[column_values].items, k).t = "str"

\* C9, amended: after the normalization pass every entry whose input value was a
\* mapping containing "text" holds the text value itself: a bare string when the text
\* value is a string (the empty string for an empty text), and the null, number or
\* nested mapping as it is when the text value is one of those.
C9_HoldsTextValue ==
    Normalized =>
        \A k \in Keys(args.column_values.items) :
            LET value == DictAt(args.column_values.items, k)
                now == DictAt(heap[column_values].items, k)
            IN  has_text(value) =>
                    /\ now = DictAt(value.items, "text")
                    /\ DictAt(value.items, "text").t = "str" => now.t = "str"
                    /\ DictAt(value.items, "text") = PyStr("") => now = PyStr("")

C9_Witness ==
    /\ Normalized
    /\ \E k \in Keys(args.column_values.items) :
        /\ DictAt(args.column_values.items, k) = Envelope(PyNone)
        /\ DictAt(heap[column_values].items, k) = PyNone

\* C10: update_monday_item leaves the caller's column_values mapping as it was: at
\* every point of the call, and whether it returns True or False, the mapping passed in
\* has the keys and the un-normalized values it had when the call was made.
C10_CallerMappingUnchanged ==
    InUpdate => heap.arg = args.column_values

C10_Witness ==
    /\ UpdateDone
    /\ outcome = Returned(PyBool(TRUE))
    /\ heap.arg = ExampleInput
    /\ heap.copy = ExampleSent

====
